---------------------------- MODULE Spec2Model ----------------------------
(***************************************************************************)
(* A model of two state machines of hyper:                                 *)
(*   - src/common/drain.rs: the drain channel (Signal, Watch, Watching,    *)
(*     Draining);                                                          *)
(*   - src/client/connect/http.rs: HttpConnector::connect, HttpConnecting, *)
(*     ConnectingTcp (happy eyeballs) and ConnectingTcpRemote.             *)
(* The two parts share no state; SpecDrain and SpecConn run one part each  *)
(* and leave the other part's variables untouched.                         *)
(***************************************************************************)
EXTENDS Integers, Sequences, FiniteSets, TLC

VARIABLES
    sig,        \* drain.rs: the Signal: "alive", "draining" (drain() called), "dropped"
    ws,         \* drain.rs: the Watch clones and Watchings, by slot
    drn,        \* drain.rs: the Draining future
    cfg,        \* http.rs: the HttpConnector's settings
    fate,       \* http.rs: what the network does with a dial to each address, by its number
    hc,         \* http.rs: the HttpConnecting future
    elapsed,    \* http.rs: the happy-eyeballs timeout has passed since ConnectingTcp::new
    resolves,   \* http.rs: number of calls of resolver.resolve
    dialLog,    \* http.rs: the calls of connect(), in order: <<dialer, address>>,
                \* and among them the failed ConnectFutures a dialer has
                \* replaced: <<"drop", dialer, address>>
    cancelLog,  \* http.rs: the in-flight dials dropped, in order: <<dialer, address>>
    pollLog     \* http.rs: the dialers polled by the last ConnectingTcp::poll, in order

drainVars == <<sig, ws, drn>>
connVars == <<cfg, fate, hc, elapsed, resolves, dialLog, cancelLog, pollLog>>
vars == <<sig, ws, drn, cfg, fate, hc, elapsed, resolves, dialLog, cancelLog, pollLog>>

\* ------------------------------------------------------------------ bounds

\* Slots for Watch clones and Watchings.
MaxWatch == 2
\* Polls of one Watching's task (TestMe.poll_cnt).
MaxPolls == 3
\* Addresses a resolver returns.
MaxAddrs == 3

\* =================================================================== drain

Slots == 1..MaxWatch

\* TestMe of the tests: the task a Watching wraps. saw is what the task's last
\* poll read of its own draining flag; last is what that poll returned.
NewTestMe == [draining |-> FALSE, finished |-> FALSE, poll_cnt |-> 0,
              saw |-> FALSE, last |-> "none"]

\* A slot: k is "free", "watch" (a bare Watch), "watching" or "gone" (dropped).
\* seen: the watch::Receiver has yielded the channel's initial Action::Open.
\* state: Watching.state, "Watch" (on_drain not yet called) or "Draining".
\* calls, polls, out: the calls of on_drain, the polls of the Watching and the
\* result of its last poll. closedPoll: "none" until the Watching is polled with
\* the Signal drained or dropped, then whether the task, when that first such
\* poll polled it, found its draining flag set ("drained" or "undrained").
FreeSlot == [k |-> "free", seen |-> FALSE, state |-> "Watch", fut |-> NewTestMe,
             calls |-> 0, polls |-> 0, out |-> "none", closedPoll |-> "none"]

\* channel(): one Signal and one Watch.
channel == [s \in Slots |-> IF s = 1 THEN [FreeSlot EXCEPT !.k = "watch"] ELSE FreeSlot]

\* The watch::Sender (Signal.tx) is alive: the broadcast is open.
TxAlive == sig = "alive"

\* LiveSenders, were the Sender of a Watching dropped before its task completed
\* never released.
LiveSenders_Leak ==
    {s \in Slots : \/ ws[s].k \in {"watch", "watching"}
                   \/ ws[s].k = "gone" /\ ws[s].polls > 0 /\ ws[s].out # "ready"}

\* LiveSenders, were the Sender of a Watching released when its task completes.
LiveSenders_CompletedReleased ==
    {s \in Slots : \/ ws[s].k = "watch"
                   \/ ws[s].k = "watching" /\ ws[s].out # "ready"}

\* The mpsc::Sender<Never> clones alive: one per Watch, bare or in a Watching.
LiveSenders == {s \in Slots : ws[s].k \in {"watch", "watching"}}

\* RecvRef, were a value received taken for the close of the channel.
RecvRef_ValueIsClose(w) ==
    IF ~w.seen \/ ~TxAlive THEN "None" ELSE "Pending"

\* me.watch.rx.recv_ref() polled once (lines 103-105). channel() creates the
\* watch channel with the value Action::Open and nothing is ever broadcast on
\* it, so the arm Poll::Ready(Some(_)) of line 110 is the receiver yielding that
\* initial value, which a watch::Receiver does on its first poll, whether or not
\* the Sender is still there; after it, the receiver yields None once the Sender
\* is dropped and is Pending before.
RecvRef(w) ==
    IF ~w.seen THEN "Some"
    ELSE IF ~TxAlive THEN "None"
    ELSE "Pending"

\* on_drain of the tests: |fut| fut.draining = true.
on_drain(f) == [f EXCEPT !.draining = TRUE]

\* TestMe::poll.
TestMePoll(f) ==
    [f EXCEPT !.poll_cnt = f.poll_cnt + 1,
              !.saw = f.draining,
              !.last = IF f.finished THEN "ready" ELSE "pending"]

\* WatchArm, were State::Watch put back after on_drain was called.
WatchArm_StaysWatch(w) ==
    LET r == RecvRef(w)
        w1 == [w EXCEPT !.seen = TRUE]
    IN IF r = "None"
       THEN [w |-> [w1 EXCEPT !.state = "Watch", !.fut = on_drain(w.fut),
                              !.calls = w.calls + 1],
             returned |-> FALSE]
       ELSE [w |-> [w1 EXCEPT !.state = "Watch", !.fut = TestMePoll(w.fut)],
             returned |-> TRUE]

\* WatchArm, were the poll to return after on_drain without polling the task.
WatchArm_NoPoll(w) ==
    LET r == RecvRef(w)
        w1 == [w EXCEPT !.seen = TRUE]
    IN IF r = "None"
       THEN [w |-> [w1 EXCEPT !.state = "Draining", !.fut = on_drain(w.fut),
                              !.calls = w.calls + 1],
             returned |-> TRUE]
       ELSE [w |-> [w1 EXCEPT !.state = "Watch", !.fut = TestMePoll(w.fut)],
             returned |-> TRUE]

\* The arm State::Watch(on_drain) of Watching::poll, up to the loop's next turn
\* or the return: the Watching after it, and whether the poll has returned.
WatchArm(w) ==
    LET r == RecvRef(w)
        w1 == [w EXCEPT !.seen = TRUE]
    IN IF r = "None"
       THEN [w |-> [w1 EXCEPT !.state = "Draining", !.fut = on_drain(w.fut),
                              !.calls = w.calls + 1],
             returned |-> FALSE]
       ELSE [w |-> [w1 EXCEPT !.state = "Watch", !.fut = TestMePoll(w.fut)],
             returned |-> TRUE]

\* The arm State::Draining of Watching::poll.
DrainingArm(w) == [w EXCEPT !.fut = TestMePoll(w.fut)]

\* Watching::poll: the loop runs the Watch arm at most once.
WatchingPoll(w) ==
    LET a == IF w.state = "Watch" THEN WatchArm(w) ELSE [w |-> w, returned |-> FALSE]
        w2 == IF a.returned THEN a.w ELSE DrainingArm(a.w)
    IN [w2 EXCEPT !.polls = w.polls + 1, !.out = w2.fut.last,
                  !.closedPoll = IF TxAlive \/ w.closedPoll # "none" THEN w.closedPoll
                                 ELSE IF w2.fut.saw THEN "drained" ELSE "undrained"]

\* DrainingPoll, were the channel taken for closed with one Sender left.
DrainingPoll_OneLeft == IF Cardinality(LiveSenders) <= 1 THEN "ready" ELSE "pending"

\* Draining::poll: Ready(()) once every Sender is dropped, else Pending.
DrainingPoll == IF LiveSenders = {} THEN "ready" ELSE "pending"

\* The Draining future: the result of its last poll.
NotDraining == [last |-> "none"]

DrainIdle == sig = "alive" /\ ws = channel /\ drn = NotDraining

\* Watch::clone; the clone takes the first free slot.
Clone(s, t) ==
    /\ ws[s].k = "watch"
    /\ ws[t].k = "free"
    /\ \A u \in 1..(t - 1) : ws[u].k # "free"
    /\ ws' = [ws EXCEPT ![t] = [FreeSlot EXCEPT !.k = "watch", !.seen = ws[s].seen]]
    /\ UNCHANGED <<sig, drn, connVars>>

\* Watch::watch(future, on_drain).
Watch(s) ==
    /\ ws[s].k = "watch"
    /\ ws' = [ws EXCEPT ![s].k = "watching", ![s].state = "Watch", ![s].fut = NewTestMe]
    /\ UNCHANGED <<sig, drn, connVars>>

\* A poll of a Watching that has not completed.
PollWatching(s) ==
    /\ ws[s].k = "watching"
    /\ ws[s].out # "ready"
    /\ ws[s].fut.poll_cnt < MaxPolls
    /\ ws' = [ws EXCEPT ![s] = WatchingPoll(ws[s])]
    /\ UNCHANGED <<sig, drn, connVars>>

\* The tests' watch.future.finished = true.
Finish(s) ==
    /\ ws[s].k = "watching"
    /\ ~ws[s].fut.finished
    /\ ws' = [ws EXCEPT ![s].fut.finished = TRUE]
    /\ UNCHANGED <<sig, drn, connVars>>

\* drop of a Watch or of a Watching.
DropWatch(s) ==
    /\ ws[s].k \in {"watch", "watching"}
    /\ ws' = [ws EXCEPT ![s].k = "gone"]
    /\ UNCHANGED <<sig, drn, connVars>>

\* Signal::drain.
Drain ==
    /\ sig = "alive"
    /\ sig' = "draining"
    /\ UNCHANGED <<ws, drn, connVars>>

\* drop of the Signal without drain().
DropSignal ==
    /\ sig = "alive"
    /\ sig' = "dropped"
    /\ UNCHANGED <<ws, drn, connVars>>

\* A poll of the Draining future that has not resolved.
PollDraining ==
    /\ sig = "draining"
    /\ drn.last # "ready"
    /\ drn' = [last |-> DrainingPoll]
    /\ UNCHANGED <<sig, ws, connVars>>

NextDrain ==
    \/ \E s, t \in Slots : Clone(s, t)
    \/ \E s \in Slots : Watch(s)
    \/ \E s \in Slots : PollWatching(s)
    \/ \E s \in Slots : Finish(s)
    \/ \E s \in Slots : DropWatch(s)
    \/ Drain
    \/ DropSignal
    \/ PollDraining

\* ============================================================== connector

\* An IP address: its family (4 or 6) and a number telling it from the others.
NoIp == [fam |-> 0, n |-> 0]
NoAddr == [ip |-> NoIp, port |-> 0]
SocketAddr(ip, port) == [ip |-> ip, port |-> port]

\* io::Error values: InvalidInput(InvalidUrl), the resolver's error, the error
\* of a dial to an address ("dial": from the ConnectFuture; "setup": from the
\* synchronous part of connect()), the error of a socket call.
NoErr == [kind |-> "none", what |-> "", addr |-> NoAddr]
InvalidInput(variant) == [kind |-> "InvalidInput", what |-> variant, addr |-> NoAddr]
ResolveErr == [kind |-> "resolve", what |-> "", addr |-> NoAddr]
DialErr(a) == [kind |-> "dial", what |-> "", addr |-> a]
SetupErr(a) == [kind |-> "setup", what |-> "", addr |-> a]
SockErr(call, a) == [kind |-> "socket", what |-> call, addr |-> a]

\* Poll<io::Result<_>>, and a panic.
Pending == [tag |-> "Pending", addr |-> NoAddr, err |-> NoErr]
ReadyOk(a) == [tag |-> "Ok", addr |-> a, err |-> NoErr]
ReadyErr(e) == [tag |-> "Err", addr |-> NoAddr, err |-> e]
Panic(msg) == [tag |-> "Panic", addr |-> NoAddr, err |-> [kind |-> "panic", what |-> msg, addr |-> NoAddr]]
NotPolled == [tag |-> "None", addr |-> NoAddr, err |-> NoErr]

\* What the network does with a dial: "ok" and "err" complete after a while,
\* "refused" is an error the ConnectFuture already holds at its first poll,
\* "setup" is connect() failing before there is a ConnectFuture.
Fates == {"ok", "err", "refused", "setup"}
FateOf(a) == fate[a.ip.n]

\* Option<ConnectFuture>: st is "none" (None), "pending", "ok" or "err" (ready,
\* not polled since), "taken" (it has returned Ready).
NoAttempt == [addr |-> NoAddr, st |-> "none"]
NewAttempt(a) == [addr |-> a, st |-> IF FateOf(a) = "refused" THEN "err" ELSE "pending"]
InFlight(att) == att.st \in {"pending", "ok", "err"}

\* ConnectingTcpRemote::new. id tells the two dialers of a ConnectingTcp apart.
RemoteNew(id, addrs) == [id |-> id, addrs |-> addrs, current |-> NoAttempt]
NoRemote == RemoteNew("-", <<>>)

\* connect(): the ConnectFuture, or the error of the socket's setup.
connect(a) ==
    IF FateOf(a) = "setup"
    THEN [ok |-> FALSE, fut |-> NoAttempt, err |-> SetupErr(a)]
    ELSE [ok |-> TRUE, fut |-> NewAttempt(a), err |-> NoErr]

\* The outcome of ConnectingTcpRemote::poll: the dialer after the poll, the
\* result, and the addresses connect() was called with.
RemoteOut(r, res, dials) == [remote |-> r, res |-> res, dials |-> dials]

\* ConnectingTcpRemote::poll, its loop with the local err.
RECURSIVE RemoteLoop(_, _, _)

\* Connected, were the failed ConnectFuture dropped before connect() is called.
Connected_DropsFirst(rest, c, err, dials) ==
    IF c.ok
    THEN RemoteLoop([rest EXCEPT !.current = c.fut], err,
                    IF rest.current.st = "none" THEN dials
                    ELSE SubSeq(dials, 1, Len(dials) - 1)
                         \o << <<"drop", rest.id, rest.current.addr>>, dials[Len(dials)] >>)
    ELSE RemoteOut([rest EXCEPT !.current.st = IF @ = "none" THEN "none" ELSE "taken"],
                   ReadyErr(c.err), dials)

\* The loop after self.addrs.next() has returned an address: c is the outcome
\* of connect() for it, rest the dialer without the address. The assignment to
\* *current of the ConnectFuture connect() has returned drops the failed one
\* that was there.
Connected(rest, c, err, dials) ==
    IF c.ok
    THEN RemoteLoop([rest EXCEPT !.current = c.fut], err,
                    IF rest.current.st = "none" THEN dials
                    ELSE Append(dials, <<"drop", rest.id, rest.current.addr>>))
    ELSE RemoteOut([rest EXCEPT !.current.st = IF @ = "none" THEN "none" ELSE "taken"],
                   ReadyErr(c.err), dials)

\* The loop's turn that takes the next address, if there is one.
NextAddr(r, err, dials) ==
    IF r.addrs # <<>>
    THEN Connected([r EXCEPT !.addrs = Tail(r.addrs)], connect(Head(r.addrs)), err,
                   Append(dials, <<r.id, Head(r.addrs)>>))
    ELSE IF err = NoErr
         THEN RemoteOut(r, Panic("missing connect error"), dials)
         ELSE RemoteOut([r EXCEPT !.current.st = "taken"], ReadyErr(err), dials)

\* RemoteLoop, were a failed ConnectFuture taken for one still pending.
RemoteLoop_IgnoresFailure(r, err, dials) ==
    CASE r.current.st = "none" -> NextAddr(r, err, dials)
      [] r.current.st = "ok" ->
             RemoteOut([r EXCEPT !.current.st = "taken"], ReadyOk(r.current.addr), dials)
      [] r.current.st \in {"pending", "err"} -> RemoteOut(r, Pending, dials)
      [] OTHER -> RemoteOut(r, Panic("ConnectFuture polled after completion"), dials)

RemoteLoop(r, err, dials) ==
    CASE r.current.st = "none" -> NextAddr(r, err, dials)
      [] r.current.st = "ok" ->
             RemoteOut([r EXCEPT !.current.st = "taken"], ReadyOk(r.current.addr), dials)
      [] r.current.st = "pending" -> RemoteOut(r, Pending, dials)
      [] r.current.st = "err" -> NextAddr(r, DialErr(r.current.addr), dials)
      [] OTHER -> RemoteOut(r, Panic("ConnectFuture polled after completion"), dials)

RemotePoll(r) == RemoteLoop(r, NoErr, <<>>)

\* split_by_preference, were IPv4 preferred whatever the first address is.
split_by_preference_V4First(addrs) ==
    [preferred |-> SelectSeq(addrs, LAMBDA a : a.ip.fam = 4),
     fallback |-> SelectSeq(addrs, LAMBDA a : a.ip.fam # 4)]

\* dns::IpAddrs::split_by_preference.
split_by_preference(addrs) ==
    IF addrs = <<>>
    THEN [preferred |-> <<>>, fallback |-> <<>>]
    ELSE [preferred |-> SelectSeq(addrs, LAMBDA a : a.ip.fam = addrs[1].ip.fam),
          fallback |-> SelectSeq(addrs, LAMBDA a : a.ip.fam # addrs[1].ip.fam)]

\* ConnectingTcp: preferred, and fallback (some: it is Some(_); its delay is
\* elapsed when the variable elapsed says so).
NoFallback == [some |-> FALSE, remote |-> NoRemote]
SomeFallback(r) == [some |-> TRUE, remote |-> r]

\* ConnectingTcpNew, were the addresses split whatever the timeout.
ConnectingTcpNew_AlwaysSplits(addrs, timeout) ==
    LET sp == split_by_preference(addrs)
    IN IF sp.fallback = <<>>
       THEN [preferred |-> RemoteNew("P", sp.preferred), fallback |-> NoFallback]
       ELSE [preferred |-> RemoteNew("P", sp.preferred),
             fallback |-> SomeFallback(RemoteNew("F", sp.fallback))]

\* ConnectingTcp::new; timeout is "Some" or "None".
ConnectingTcpNew(addrs, timeout) ==
    LET sp == split_by_preference(addrs)
    IN IF timeout = "Some"
       THEN IF sp.fallback = <<>>
            THEN [preferred |-> RemoteNew("P", sp.preferred), fallback |-> NoFallback]
            ELSE [preferred |-> RemoteNew("P", sp.preferred),
                  fallback |-> SomeFallback(RemoteNew("F", sp.fallback))]
       ELSE [preferred |-> RemoteNew("P", addrs), fallback |-> NoFallback]

\* The in-flight dial a dropped dialer takes with it: the dialer, the address
\* and what the dial had come to ("pending", "ok", "err").
Dropped(r) == IF InFlight(r.current) THEN <<<<r.id, r.current.addr, r.current.st>>>> ELSE <<>>

\* The outcome of ConnectingTcp::poll: the coordinator after the poll, the
\* result, the calls of connect(), the in-flight dials dropped, and what was
\* polled, in order.
TcpOut(t, res, dials, cancels, polled) ==
    [tcp |-> t, res |-> res, dials |-> dials, cancels |-> cancels, polled |-> polled]

\* FallbackPolled, were self.preferred kept when the fallback connects.
FallbackPolled_KeepsPreferred(p, f) ==
    CASE f.res.tag = "Ok" ->
             TcpOut([preferred |-> p.remote, fallback |-> NoFallback], f.res,
                    p.dials \o f.dials, <<>>, <<"P", "delay", "F">>)
      [] f.res.tag = "Pending" ->
             TcpOut([preferred |-> p.remote, fallback |-> SomeFallback(f.remote)], Pending,
                    p.dials \o f.dials, <<>>, <<"P", "delay", "F">>)
      [] OTHER ->
             TcpOut([preferred |-> p.remote, fallback |-> NoFallback],
                    IF f.res.tag = "Panic" THEN f.res ELSE Pending,
                    p.dials \o f.dials, Dropped(f.remote), <<"P", "delay", "F">>)

\* FallbackPolled, were the fallback dialer's error returned.
FallbackPolled_ReturnsError(p, f) ==
    CASE f.res.tag = "Ok" ->
             TcpOut([preferred |-> f.remote, fallback |-> NoFallback], f.res,
                    p.dials \o f.dials, Dropped(p.remote), <<"P", "delay", "F">>)
      [] f.res.tag = "Pending" ->
             TcpOut([preferred |-> p.remote, fallback |-> SomeFallback(f.remote)], Pending,
                    p.dials \o f.dials, <<>>, <<"P", "delay", "F">>)
      [] OTHER ->
             TcpOut([preferred |-> p.remote, fallback |-> NoFallback], f.res,
                    p.dials \o f.dials, Dropped(f.remote), <<"P", "delay", "F">>)

\* ConnectingTcp::poll, preferred pending and the delay elapsed: f is the
\* outcome of fallback.remote.poll.
FallbackPolled(p, f) ==
    CASE f.res.tag = "Ok" ->
             TcpOut([preferred |-> f.remote, fallback |-> NoFallback], f.res,
                    p.dials \o f.dials, Dropped(p.remote), <<"P", "delay", "F">>)
      [] f.res.tag = "Pending" ->
             TcpOut([preferred |-> p.remote, fallback |-> SomeFallback(f.remote)], Pending,
                    p.dials \o f.dials, <<>>, <<"P", "delay", "F">>)
      [] OTHER ->
             TcpOut([preferred |-> p.remote, fallback |-> NoFallback],
                    IF f.res.tag = "Panic" THEN f.res ELSE Pending,
                    p.dials \o f.dials, Dropped(f.remote), <<"P", "delay", "F">>)

\* PromotedPolled, were the preferred dialer's error returned when the promoted
\* fallback dialer fails too.
PromotedPolled_PreferredError(p, q) ==
    TcpOut([preferred |-> q.remote, fallback |-> NoFallback],
           IF q.res.tag = "Err" THEN p.res ELSE q.res,
           p.dials \o q.dials, Dropped(p.remote), <<"P", "F">>)

\* PromotedPolled, were the preferred dialer's error returned and the fallback
\* dialer, though promoted, not polled.
PromotedPolled_NotPolled(p, q) ==
    TcpOut([preferred |-> [q.remote EXCEPT !.addrs = p.remote.addrs \o @, !.current = NoAttempt],
            fallback |-> NoFallback],
           p.res, p.dials, Dropped(p.remote), <<"P">>)

\* ConnectingTcp::poll, preferred failed: q is the outcome of the poll of the
\* fallback dialer, now self.preferred.
PromotedPolled(p, q) ==
    TcpOut([preferred |-> q.remote, fallback |-> NoFallback], q.res,
           p.dials \o q.dials, Dropped(p.remote), <<"P", "F">>)

\* PreferredPolled, were the fallback left alone until the preferred dialer fails.
PreferredPolled_WaitsForFailure(c, p) ==
    CASE p.res.tag = "Ok" ->
             TcpOut([preferred |-> p.remote, fallback |-> NoFallback], p.res, p.dials,
                    Dropped(c.fallback.remote), <<"P">>)
      [] p.res.tag = "Pending" ->
             TcpOut([preferred |-> p.remote, fallback |-> c.fallback], Pending, p.dials,
                    <<>>, <<"P", "delay">>)
      [] p.res.tag = "Err" -> PromotedPolled(p, RemotePoll(c.fallback.remote))
      [] OTHER ->
             TcpOut([preferred |-> p.remote, fallback |-> NoFallback], p.res, p.dials,
                    Dropped(c.fallback.remote), <<"P">>)

\* PreferredPolled, were the fallback dialer polled first once the delay has
\* elapsed, and its socket returned.
PreferredPolled_FallbackFirst(c, p) ==
    IF elapsed /\ RemotePoll(c.fallback.remote).res.tag = "Ok"
    THEN TcpOut([preferred |-> RemotePoll(c.fallback.remote).remote, fallback |-> NoFallback],
                RemotePoll(c.fallback.remote).res, RemotePoll(c.fallback.remote).dials,
                Dropped(c.preferred), <<"delay", "F">>)
    ELSE CASE p.res.tag = "Ok" ->
                  TcpOut([preferred |-> p.remote, fallback |-> NoFallback], p.res, p.dials,
                         Dropped(c.fallback.remote), <<"P">>)
           [] p.res.tag = "Pending" ->
                  IF elapsed
                  THEN FallbackPolled(p, RemotePoll(c.fallback.remote))
                  ELSE TcpOut([preferred |-> p.remote, fallback |-> c.fallback], Pending,
                              p.dials, <<>>, <<"P", "delay">>)
           [] p.res.tag = "Err" -> PromotedPolled(p, RemotePoll(c.fallback.remote))
           [] OTHER ->
                  TcpOut([preferred |-> p.remote, fallback |-> NoFallback], p.res, p.dials,
                         Dropped(c.fallback.remote), <<"P">>)

\* PreferredPolled, were the fallback put back when the preferred dialer connects.
PreferredPolled_KeepsFallback(c, p) ==
    CASE p.res.tag = "Ok" ->
             TcpOut([preferred |-> p.remote, fallback |-> c.fallback], p.res, p.dials,
                    <<>>, <<"P">>)
      [] p.res.tag = "Pending" ->
             IF elapsed
             THEN FallbackPolled(p, RemotePoll(c.fallback.remote))
             ELSE TcpOut([preferred |-> p.remote, fallback |-> c.fallback], Pending, p.dials,
                         <<>>, <<"P", "delay">>)
      [] p.res.tag = "Err" -> PromotedPolled(p, RemotePoll(c.fallback.remote))
      [] OTHER ->
             TcpOut([preferred |-> p.remote, fallback |-> NoFallback], p.res, p.dials,
                    Dropped(c.fallback.remote), <<"P">>)

\* ConnectingTcp::poll with a fallback: p is the outcome of self.preferred.poll.
PreferredPolled(c, p) ==
    CASE p.res.tag = "Ok" ->
             TcpOut([preferred |-> p.remote, fallback |-> NoFallback], p.res, p.dials,
                    Dropped(c.fallback.remote), <<"P">>)
      [] p.res.tag = "Pending" ->
             IF elapsed
             THEN FallbackPolled(p, RemotePoll(c.fallback.remote))
             ELSE TcpOut([preferred |-> p.remote, fallback |-> c.fallback], Pending, p.dials,
                         <<>>, <<"P", "delay">>)
      [] p.res.tag = "Err" -> PromotedPolled(p, RemotePoll(c.fallback.remote))
      [] OTHER ->
             TcpOut([preferred |-> p.remote, fallback |-> NoFallback], p.res, p.dials,
                    Dropped(c.fallback.remote), <<"P">>)

\* ConnectingTcp::poll without a fallback: p is the outcome of self.preferred.poll.
PreferredOnly(c, p) == TcpOut([c EXCEPT !.preferred = p.remote], p.res, p.dials, <<>>, <<"P">>)

\* ConnectingTcp::poll.
ConnectingTcpPoll(c) ==
    IF c.fallback.some
    THEN PreferredPolled(c, RemotePoll(c.preferred))
    ELSE PreferredOnly(c, RemotePoll(c.preferred))

\* Destination: the Uri's scheme_part ("none", "http", "https"), host ("" when
\* there is none) and port_part (0 when there is none).
Uri(scheme, host, port) == [scheme |-> scheme, host |-> host, port |-> port]
Destinations ==
    { Uri("none", "", 0),                  \* "/foo/bar?baz"
      Uri("none", "example.domain", 0),    \* "example.domain"
      Uri("https", "example.domain", 0),   \* "https://example.domain/foo/bar?baz"
      Uri("http", "example.domain", 0),
      Uri("http", "192.0.2.1", 0),
      Uri("https", "192.0.2.1", 0),
      Uri("http", "192.0.2.1", 8080) }

\* The host as an IP address, NoIp when it is not one (IpAddr::from_str).
ParseIp(host) ==
    CASE host = "192.0.2.1" -> [fam |-> 4, n |-> 1]
      [] host = "2001:db8::1" -> [fam |-> 6, n |-> 1]
      [] OTHER -> NoIp

\* dns::IpAddrs::try_parse(host, port): Some(the one address) or None.
try_parse(host, port) ==
    IF ParseIp(host) # NoIp
    THEN [some |-> TRUE, addrs |-> <<SocketAddr(ParseIp(host), port)>>]
    ELSE [some |-> FALSE, addrs |-> <<>>]

\* The settings of the socket calls; each Option is "Some" or "None".
SockCfgs ==
    { [keep_alive_timeout |-> "None", nodelay |-> FALSE,
       send_buffer_size |-> "None", recv_buffer_size |-> "None"],
      [keep_alive_timeout |-> "Some", nodelay |-> TRUE,
       send_buffer_size |-> "Some", recv_buffer_size |-> "Some"] }

\* HttpConnector.
Configs ==
    { [enforce_http |-> e, happy_eyeballs_timeout |-> t, sock |-> s] :
        e \in BOOLEAN, t \in {"None", "Some"}, s \in SockCfgs }

\* The resolver's future (R::Future): st is "none", "pending", "ok" or "err".
NoResolving == [st |-> "none", ips |-> <<>>]
NoTcp == [preferred |-> NoRemote, fallback |-> NoFallback]

\* HttpConnecting. state is "None" (connect() not called yet), "Lazy",
\* "Resolving", "Connecting" or "Error"; err is State::Error's Option.
\* visited, out, sockLog, sockDropped: the states the future has been in, the
\* result of its last poll, the calls made on the connected socket, and
\* whether that socket was dropped. tcpRes, late: the result of the last poll
\* of the coordinator, and whether the timeout had passed at that poll. dst:
\* the destination connect() was called with.
NoHc ==
    [state |-> "None", dst |-> Uri("none", "", 0),
     host |-> "", port |-> 0, happy_eyeballs_timeout |-> "None",
     sock |-> CHOOSE s \in SockCfgs : s.keep_alive_timeout = "None",
     err |-> [some |-> FALSE, e |-> NoErr], resolving |-> NoResolving, tcp |-> NoTcp,
     visited |-> <<>>, out |-> NotPolled, sockLog |-> <<>>, sockDropped |-> FALSE,
     tcpRes |-> NotPolled, late |-> FALSE]

\* invalid_url.
invalid_url(variant) ==
    [NoHc EXCEPT !.state = "Error", !.err = [some |-> TRUE, e |-> InvalidInput(variant)],
                 !.visited = <<"Error">>]

\* HttpConnect, were the scheme not looked at.
HttpConnect_AnyScheme(c, dst) ==
    IF dst.host = "" THEN invalid_url("MissingAuthority")
    ELSE [NoHc EXCEPT !.state = "Lazy", !.host = dst.host,
                      !.port = IF dst.port # 0 THEN dst.port
                               ELSE IF dst.scheme = "https" THEN 443 ELSE 80,
                      !.happy_eyeballs_timeout = c.happy_eyeballs_timeout,
                      !.sock = c.sock,
                      !.visited = <<"Lazy">>]

\* HttpConnector::connect.
HttpConnect(c, dst) ==
    IF c.enforce_http /\ dst.scheme # "http" THEN invalid_url("NotHttp")
    ELSE IF ~c.enforce_http /\ dst.scheme = "none" THEN invalid_url("MissingScheme")
    ELSE IF dst.host = "" THEN invalid_url("MissingAuthority")
    ELSE [NoHc EXCEPT !.state = "Lazy", !.host = dst.host,
                      !.port = IF dst.port # 0 THEN dst.port
                               ELSE IF dst.scheme = "https" THEN 443 ELSE 80,
                      !.happy_eyeballs_timeout = c.happy_eyeballs_timeout,
                      !.sock = c.sock,
                      !.visited = <<"Lazy">>]

\* SockCalls, were set_nodelay called before the buffer sizes are set.
SockCalls_NodelayBeforeBuffers(h) ==
    (IF h.sock.keep_alive_timeout = "Some" THEN <<"set_keepalive">> ELSE <<>>)
    \o <<"set_nodelay">>
    \o (IF h.sock.send_buffer_size = "Some" THEN <<"set_send_buffer_size">> ELSE <<>>)
    \o (IF h.sock.recv_buffer_size = "Some" THEN <<"set_recv_buffer_size">> ELSE <<>>)
    \o <<"peer_addr">>

\* The socket calls of State::Connecting after the coordinator's Ok, in order.
SockCalls(h) ==
    (IF h.sock.keep_alive_timeout = "Some" THEN <<"set_keepalive">> ELSE <<>>)
    \o (IF h.sock.send_buffer_size = "Some" THEN <<"set_send_buffer_size">> ELSE <<>>)
    \o (IF h.sock.recv_buffer_size = "Some" THEN <<"set_recv_buffer_size">> ELSE <<>>)
    \o <<"set_nodelay", "peer_addr">>

\* The socket call that fails, "none" when none does.
SockFails == {"none", "set_keepalive", "set_send_buffer_size", "set_recv_buffer_size",
              "set_nodelay", "peer_addr"}

\* The index of the first call of calls that is `call`, 0 when there is none.
IndexOf(calls, call) ==
    IF \E i \in 1..Len(calls) : calls[i] = call
    THEN CHOOSE i \in 1..Len(calls) : calls[i] = call /\ \A j \in 1..(i - 1) : calls[j] # call
    ELSE 0

\* What a poll does besides changing the future.
NoEffects == [resolves |-> 0, dials |-> <<>>, cancels |-> <<>>, polled |-> <<>>]

\* LazyArm, were the host resolved without a look at whether it is an address.
LazyArm_AlwaysResolves(h) ==
    [h EXCEPT !.state = "Resolving", !.host = "",
              !.resolving = [st |-> "pending", ips |-> <<>>],
              !.visited = Append(h.visited, "Resolving")]

\* State::Lazy of HttpConnecting::poll: the next state.
LazyArm(h) ==
    LET p == try_parse(h.host, h.port)
    IN IF p.some
       THEN [h EXCEPT !.state = "Connecting", !.host = h.host,
                      !.tcp = ConnectingTcpNew(p.addrs, h.happy_eyeballs_timeout),
                      !.visited = Append(h.visited, "Connecting")]
       ELSE [h EXCEPT !.state = "Resolving", !.host = "",
                      !.resolving = [st |-> "pending", ips |-> <<>>],
                      !.visited = Append(h.visited, "Resolving")]

\* ResolvedArm, were the future put back in State::Lazy with the addresses
\* thrown away.
ResolvedArm_BackToLazy(h) ==
    [h EXCEPT !.state = "Lazy",
              !.host = h.dst.host,
              !.resolving.st = "taken",
              !.visited = Append(h.visited, "Lazy")]

\* State::Resolving, the resolver's future being ready with addresses.
ResolvedArm(h) ==
    LET addrs == [i \in 1..Len(h.resolving.ips) |-> SocketAddr(h.resolving.ips[i], h.port)]
    IN [h EXCEPT !.state = "Connecting",
                 !.resolving.st = "taken",
                 !.tcp = ConnectingTcpNew(addrs, h.happy_eyeballs_timeout),
                 !.visited = Append(h.visited, "Connecting")]

\* ConnectedArm, were the socket kept when a call on it fails.
ConnectedArm_KeepsSocket(h, a, sockFail) ==
    IF IndexOf(SockCalls(h), sockFail) = 0
    THEN [h EXCEPT !.sockLog = SockCalls(h), !.out = ReadyOk(a)]
    ELSE [h EXCEPT !.sockLog = SubSeq(SockCalls(h), 1, IndexOf(SockCalls(h), sockFail)),
                   !.out = ReadyErr(SockErr(sockFail, a))]

\* State::Connecting, the coordinator having returned a socket connected to a.
ConnectedArm(h, a, sockFail) ==
    LET calls == SockCalls(h)
        k == IndexOf(calls, sockFail)
    IN IF k = 0
       THEN [h EXCEPT !.sockLog = calls, !.out = ReadyOk(a)]
       ELSE [h EXCEPT !.sockLog = SubSeq(calls, 1, k), !.sockDropped = TRUE,
                      !.out = ReadyErr(SockErr(sockFail, a))]

\* ConnectingArm, were the future put in State::Error when the coordinator fails.
ConnectingArm_FailsToError(h, t, fx, sockFail) ==
    [hc |-> IF t.res.tag = "Ok"
            THEN ConnectedArm([h EXCEPT !.tcp = t.tcp, !.tcpRes = t.res, !.late = elapsed],
                              t.res.addr, sockFail)
            ELSE [h EXCEPT !.tcp = t.tcp, !.tcpRes = t.res, !.late = elapsed, !.out = t.res,
                           !.state = IF t.res.tag = "Err" THEN "Error" ELSE @,
                           !.visited = IF t.res.tag = "Err" THEN Append(@, "Error") ELSE @],
     fx |-> [fx EXCEPT !.dials = t.dials, !.cancels = t.cancels, !.polled = t.polled]]

\* State::Connecting of HttpConnecting::poll: t is the outcome of c.poll.
ConnectingArm(h, t, fx, sockFail) ==
    [hc |-> IF t.res.tag = "Ok"
            THEN ConnectedArm([h EXCEPT !.tcp = t.tcp, !.tcpRes = t.res, !.late = elapsed],
                              t.res.addr, sockFail)
            ELSE [h EXCEPT !.tcp = t.tcp, !.tcpRes = t.res, !.late = elapsed, !.out = t.res],
     fx |-> [fx EXCEPT !.dials = t.dials, !.cancels = t.cancels, !.polled = t.polled]]

\* ErrorArm, were the error left in place when it is returned.
ErrorArm_KeepsError(h) ==
    IF h.err.some
    THEN [h EXCEPT !.out = ReadyErr(h.err.e)]
    ELSE [h EXCEPT !.out = Panic("polled more than once")]

\* State::Error of HttpConnecting::poll.
ErrorArm(h) ==
    IF h.err.some
    THEN [h EXCEPT !.err = [some |-> FALSE, e |-> NoErr], !.out = ReadyErr(h.err.e)]
    ELSE [h EXCEPT !.out = Panic("polled more than once")]

\* HttpConnecting::poll: its loop, from state h with the effects so far: the
\* future after the poll (out is what the poll returned) and the effects.
RECURSIVE HttpConnectingLoop(_, _, _)
HttpConnectingLoop(h, fx, sockFail) ==
    CASE h.state = "Lazy" ->
             HttpConnectingLoop(LazyArm(h),
                 [fx EXCEPT !.resolves = @ + IF LazyArm(h).state = "Resolving" THEN 1 ELSE 0],
                 sockFail)
      [] h.state = "Resolving" ->
             CASE h.resolving.st = "pending" -> [hc |-> [h EXCEPT !.out = Pending], fx |-> fx]
               [] h.resolving.st = "err" ->
                      [hc |-> [h EXCEPT !.resolving.st = "taken", !.out = ReadyErr(ResolveErr)],
                       fx |-> fx]
               [] h.resolving.st = "ok" -> HttpConnectingLoop(ResolvedArm(h), fx, sockFail)
               [] OTHER ->
                      [hc |-> [h EXCEPT !.out = Panic("resolver future polled after completion")],
                       fx |-> fx]
      [] h.state = "Connecting" -> ConnectingArm(h, ConnectingTcpPoll(h.tcp), fx, sockFail)
      [] h.state = "Error" -> [hc |-> ErrorArm(h), fx |-> fx]

HttpConnectingPoll(h, sockFail) == HttpConnectingLoop(h, NoEffects, sockFail)

\* The addresses a resolver may return: any families, told apart by position.
Resolutions ==
    UNION { { [i \in 1..n |-> [fam |-> f[i], n |-> i]] : f \in [1..n -> {4, 6}] } : n \in 0..MaxAddrs }

ConnIdle ==
    /\ hc = NoHc
    /\ fate = <<>>
    /\ elapsed = FALSE
    /\ resolves = 0
    /\ dialLog = <<>>
    /\ cancelLog = <<>>
    /\ pollLog = <<>>

\* The future may still be polled: it has not returned Ready, or it is in
\* State::Error having returned its error (the poll "more than once").
Pollable(h) ==
    /\ h.state # "None"
    /\ \/ h.out.tag \in {"None", "Pending"}
       \/ h.state = "Error" /\ h.out.tag = "Err"

\* HttpConnector::connect(dst), for any destination; with it is chosen what the
\* network will do with a dial to the host when the host is an IP address.
Connect ==
    /\ hc.state = "None"
    /\ \E dst \in Destinations :
          /\ hc' = [HttpConnect(cfg, dst) EXCEPT !.dst = dst]
          /\ fate' \in IF hc'.state = "Lazy" /\ ParseIp(dst.host) # NoIp
                       THEN [1..1 -> Fates] ELSE {<<>>}
    /\ UNCHANGED <<cfg, elapsed, resolves, dialLog, cancelLog, pollLog, drainVars>>

\* A dialer of the coordinator of h holds a dial that has connected.
HasConnected(h) ==
    /\ h.state = "Connecting"
    /\ \/ h.tcp.preferred.current.st = "ok"
       \/ h.tcp.fallback.some /\ h.tcp.fallback.remote.current.st = "ok"

\* The socket calls that may fail in a poll of h: any when the poll gets a
\* connected socket (a dial had connected before the poll: one the poll starts
\* is not ready in it), none to choose from otherwise.
SockFailsAt(h) ==
    IF HasConnected(h) /\ HttpConnectingPoll(h, "none").hc.out.tag = "Ok"
    THEN SockFails
    ELSE {"none"}

\* A poll of the HttpConnecting future.
Poll(sockFail) ==
    /\ Pollable(hc)
    /\ sockFail \in SockFailsAt(hc)
    /\ \E r \in {HttpConnectingPoll(hc, sockFail)} :
          /\ hc' = r.hc
          /\ resolves' = resolves + r.fx.resolves
          /\ dialLog' = dialLog \o r.fx.dials
          /\ cancelLog' = cancelLog \o r.fx.cancels
          /\ pollLog' = r.fx.polled
    /\ UNCHANGED <<cfg, fate, elapsed, drainVars>>

\* The resolver's future becomes ready with addresses; with them is chosen what
\* the network will do with a dial to each.
ResolveOk ==
    /\ hc.state = "Resolving"
    /\ hc.resolving.st = "pending"
    /\ \E ips \in Resolutions :
          /\ hc' = [hc EXCEPT !.resolving = [st |-> "ok", ips |-> ips]]
          /\ fate' \in [1..Len(ips) -> Fates]
    /\ UNCHANGED <<cfg, elapsed, resolves, dialLog, cancelLog, pollLog, drainVars>>

\* The resolver's future becomes ready with an error.
ResolveFail ==
    /\ hc.state = "Resolving"
    /\ hc.resolving.st = "pending"
    /\ hc' = [hc EXCEPT !.resolving = [st |-> "err", ips |-> <<>>]]
    /\ UNCHANGED <<cfg, fate, elapsed, resolves, dialLog, cancelLog, pollLog, drainVars>>

\* The dial a dialer has in flight completes, as the network decides.
Completed(att) == [att EXCEPT !.st = IF FateOf(att.addr) = "ok" THEN "ok" ELSE "err"]

\* The preferred dialer's dial completes.
PreferredDialDone ==
    /\ hc.state = "Connecting"
    /\ hc.out.tag = "Pending"
    /\ hc.tcp.preferred.current.st = "pending"
    /\ hc' = [hc EXCEPT !.tcp.preferred.current = Completed(@)]
    /\ UNCHANGED <<cfg, fate, elapsed, resolves, dialLog, cancelLog, pollLog, drainVars>>

\* The fallback dialer's dial completes.
FallbackDialDone ==
    /\ hc.state = "Connecting"
    /\ hc.out.tag = "Pending"
    /\ hc.tcp.fallback.some
    /\ hc.tcp.fallback.remote.current.st = "pending"
    /\ hc' = [hc EXCEPT !.tcp.fallback.remote.current = Completed(@)]
    /\ UNCHANGED <<cfg, fate, elapsed, resolves, dialLog, cancelLog, pollLog, drainVars>>

\* The happy-eyeballs timeout passes (whether or not a Delay waits for it).
TimePasses ==
    /\ hc.state = "Connecting"
    /\ hc.out.tag = "Pending"
    /\ ~elapsed
    /\ elapsed' = TRUE
    /\ UNCHANGED <<cfg, fate, hc, resolves, dialLog, cancelLog, pollLog, drainVars>>

NextConn ==
    \/ Connect
    \/ \E sf \in SockFails : Poll(sf)
    \/ ResolveOk
    \/ ResolveFail
    \/ PreferredDialDone
    \/ FallbackDialDone
    \/ TimePasses

\* ========================================================= specifications

InitDrain ==
    /\ DrainIdle
    /\ ConnIdle
    /\ cfg = CHOOSE c \in Configs : TRUE

InitConn ==
    /\ DrainIdle
    /\ ConnIdle
    /\ cfg \in Configs

SpecDrain == InitDrain /\ [][NextDrain]_vars

SpecConn == InitConn /\ [][NextConn]_vars

\* A poll of the future would change something: its state, its result, or
\* what it calls, drops and polls.
PollActs ==
    /\ Pollable(hc)
    /\ \E sf \in SockFailsAt(hc) :
          LET r == HttpConnectingPoll(hc, sf)
          IN \/ r.hc # hc
             \/ r.fx.resolves # 0
             \/ r.fx.dials # <<>>
             \/ r.fx.cancels # <<>>
             \/ r.fx.polled # pollLog

\* A step of Progress can be taken and changes the state: the guards of its
\* four actions (ENABLED <<Progress>>_vars, written out).
CanProgress ==
    \/ PollActs
    \/ /\ hc.state = "Connecting"
       /\ hc.out.tag = "Pending"
       /\ \/ hc.tcp.preferred.current.st = "pending"
          \/ hc.tcp.fallback.some /\ hc.tcp.fallback.remote.current.st = "pending"
          \/ ~elapsed

\* What wakes and runs the task that owns the future: a poll, the completion
\* of a dial in flight, the passing of the timeout.
Progress ==
    \/ \E sf \in SockFails : Poll(sf)
    \/ PreferredDialDone
    \/ FallbackDialDone
    \/ TimePasses

\* The scheduling of a coordinator, WF_vars(Progress) with its ENABLED written
\* out as CanProgress: while a dial in flight can complete, the timeout can
\* pass or a poll can change something, one of these comes to happen.
FairConn == []<>(~CanProgress) \/ []<><<Progress>>_vars

\* The connector whose coordinators are scheduled: any scheme, a timeout (the
\* coordinator has a fallback dialer when the addresses are of two families,
\* none when they are of one), every socket option set.
InitConnLive ==
    /\ DrainIdle
    /\ ConnIdle
    /\ cfg \in {c \in Configs : /\ ~c.enforce_http
                                /\ c.happy_eyeballs_timeout = "Some"
                                /\ c.sock.nodelay}

SpecConnLive == InitConnLive /\ [][NextConn]_vars /\ FairConn

\* ================================================================= claims

\* A slot holds a Watch clone that is alive, bare or inside a Watching.
Alive(s) == ws[s].k \in {"watch", "watching"}

\* ----- C1
\* C1: the Draining future never resolves while a Watch clone, bare or inside a
\* Watching, is alive: a poll of it that returned Ready found every clone
\* dropped (no clone can be made after that: there is none left to clone).
C1_DrainingPendingWhileAlive == drn.last = "ready" => \A s \in Slots : ~Alive(s)

\* Draining has been polled and is pending with one clone dropped and another,
\* inside a Watching, alive.
C1_Witness ==
    /\ drn.last = "pending"
    /\ \E s, t \in Slots : ws[s].k = "gone" /\ ws[t].k = "watching"

\* ----- C2
\* C2: after drain(), a poll of Draining made when every Watch clone has been
\* dropped, in whatever order and whether or not the tasks had finished,
\* returns Ready.
C2_DrainingResolvesWhenAllDropped ==
    [][(sig = "draining" /\ (\A s \in Slots : ~Alive(s)) /\ drn' # drn)
          => drn'.last = "ready"]_vars

\* Draining has resolved after a Watching was dropped with its task unfinished.
C2_Witness ==
    /\ drn.last = "ready"
    /\ \E s \in Slots : ws[s].k = "gone" /\ ws[s].polls > 0 /\ ws[s].out = "pending"

\* ----- C3
\* C3: on_drain is called at most once for a Watching; once the state is
\* State::Draining it stays so and no poll calls on_drain again.
C3_OnDrainAtMostOnce ==
    /\ [](\A s \in Slots : ws[s].calls <= 1)
    /\ [][\A s \in Slots :
            (ws[s].k = "watching" /\ ws[s].state = "Draining")
                => (ws'[s].state = "Draining" /\ ws'[s].calls = ws[s].calls)]_vars

\* A Watching polled three times, the last two with the Signal gone: on_drain
\* was called in the second and the third poll came after it.
C3_Witness ==
    \E s \in Slots :
        /\ ws[s].k = "watching"
        /\ ws[s].calls = 1
        /\ ws[s].polls = 3
        /\ ws[s].closedPoll = "undrained"

\* ----- C4
\* C4: the first poll of a Watching after the Signal is drained calls on_drain
\* before it polls the task: the task, polled by that poll, finds its draining
\* flag set.
C4_FirstPollAfterDrainNotifies ==
    sig = "draining" => \A s \in Slots : ws[s].closedPoll # "undrained"

\* ----- C5
\* C5: on_drain is not called while the broadcast is open, and drain() or the
\* drop of the Signal calls no on_drain and polls no task by itself.
C5_NoOnDrainWhileOpen ==
    /\ [](\A s \in Slots : ws[s].calls > 0 => sig # "alive")
    /\ [][sig' # sig => ws' = ws]_vars

\* A Watching polled twice with the Signal alive: no on_drain.
C5_Witness ==
    \E s \in Slots : ws[s].k = "watching" /\ ws[s].polls = 2 /\ ws[s].calls = 0 /\ sig = "alive"

\* ----- C6
\* C6: every poll of a Watching polls the task exactly once, and returns what
\* the task's poll returned.
C6_PollsTaskOnce ==
    \A s \in Slots : ws[s].polls = ws[s].fut.poll_cnt /\ ws[s].out = ws[s].fut.last

\* A Watching whose third poll returned the finished task's Ready, on_drain
\* having been called by one of the three.
C6_Witness ==
    \E s \in Slots : ws[s].polls = 3 /\ ws[s].calls = 1 /\ ws[s].out = "ready"

\* The addresses the coordinator of h was built from, in order.
GivenAddrs(h) ==
    IF ParseIp(h.dst.host) # NoIp
    THEN try_parse(h.dst.host, h.port).addrs
    ELSE [i \in 1..Len(h.resolving.ips) |-> SocketAddr(h.resolving.ips[i], h.port)]

\* The addresses dialer id has called connect() with, in order.
Dialed(id) ==
    LET mine == SelectSeq(dialLog, LAMBDA d : d[1] = id)
    IN [i \in 1..Len(mine) |-> mine[i][2]]

\* The dials the coordinator has in flight.
InFlightCount(c) ==
    (IF InFlight(c.preferred.current) THEN 1 ELSE 0)
    + (IF c.fallback.some /\ InFlight(c.fallback.remote.current) THEN 1 ELSE 0)

\* ----- C7
\* C7: a dialer (here the one dialer of a coordinator built without fallback)
\* over a non-empty address list in which every dial fails returns an error
\* only after it has called connect() for every address, once each and in list
\* order, and the error is that of the last address of the list.
C7_DialerTriesEveryAddress ==
    ( /\ hc.state = "Connecting"
      /\ hc.tcpRes.tag = "Err"
      /\ Dialed("F") = <<>> /\ hc.tcp.preferred.id = "P"
      /\ GivenAddrs(hc) # <<>>
      /\ \A i \in DOMAIN fate : fate[i] # "ok" )
    => /\ Dialed("P") = GivenAddrs(hc)
       /\ hc.tcpRes.err.addr = GivenAddrs(hc)[Len(GivenAddrs(hc))]

\* ----- C8
\* C8: with a host that is an IP address the future goes from Lazy to
\* Connecting, is never in Resolving, never calls the resolver, and its
\* coordinator has the one address made of that IP and the port: nothing else
\* is dialed and a socket returned is connected to it.
C8_LiteralIpSkipsResolver ==
    (hc.state # "None" /\ hc.state # "Error" /\ ParseIp(hc.dst.host) # NoIp)
    => LET a == SocketAddr(ParseIp(hc.dst.host), hc.port)
       IN /\ resolves = 0
          /\ \A i \in DOMAIN hc.visited : hc.visited[i] # "Resolving"
          /\ hc.state = "Connecting" =>
                /\ hc.visited = <<"Lazy", "Connecting">>
                /\ ~hc.tcp.fallback.some
                /\ Dialed("P") \o hc.tcp.preferred.addrs = <<a>>
                /\ Dialed("F") = <<>>
          /\ hc.out.tag = "Ok" => hc.out.addr = a

\* http://192.0.2.1 with enforce_http: the poll returned a socket connected to
\* 192.0.2.1:80.
C8_Witness ==
    /\ cfg.enforce_http
    /\ hc.dst = Uri("http", "192.0.2.1", 0)
    /\ hc.out = ReadyOk(SocketAddr([fam |-> 4, n |-> 1], 80))

\* ----- C9
\* C9: when a poll of the coordinator finds the preferred dial pending, the
\* delay elapsed and the fallback dial connected, it returns the fallback's
\* socket, and the preferred dialer is dropped with its dial in flight: that
\* dial is the one dial canceled, and no dialer that could poll it is left.
C9_FallbackWinsCancelsPreferred ==
    (hc.tcpRes.tag = "Ok" /\ pollLog = <<"P", "delay", "F">>)
    => /\ Dialed("F") # <<>>
       /\ hc.tcpRes.addr = Dialed("F")[Len(Dialed("F"))]
       /\ hc.tcp.preferred.id = "F"
       /\ ~hc.tcp.fallback.some
       /\ Dialed("P") # <<>>
       /\ Len(cancelLog) = 1
       /\ cancelLog[1][1] = "P"
       /\ cancelLog[1][2] = Dialed("P")[Len(Dialed("P"))]

\* The fallback's first dial won with the preferred dial pending.
C9_Witness ==
    /\ hc.tcpRes.tag = "Ok"
    /\ pollLog = <<"P", "delay", "F">>
    /\ Len(Dialed("F")) = 1
    /\ hc.tcpRes.addr = split_by_preference(GivenAddrs(hc)).fallback[1]

\* ----- C10
\* C10: with happy_eyeballs_timeout None the coordinator has no fallback and
\* polls no delay, whatever the families of the addresses and however long the
\* preferred dial is pending: only the preferred dialer dials, at most one
\* dial is in flight and none is dropped.
C10_NoTimeoutNoFallback ==
    (hc.state = "Connecting" /\ cfg.happy_eyeballs_timeout = "None")
    => /\ ~hc.tcp.fallback.some
       /\ hc.tcp.preferred.id = "P"
       /\ Dialed("F") = <<>>
       /\ pollLog \in {<<>>, <<"P">>}
       /\ cancelLog = <<>>
       /\ InFlightCount(hc.tcp) <= 1

\* No timeout, addresses of both families, and the preferred dial still
\* pending at a poll made after the timeout's time had passed.
C10_Witness ==
    /\ cfg.happy_eyeballs_timeout = "None"
    /\ hc.state = "Connecting"
    /\ hc.late
    /\ hc.tcpRes.tag = "Pending"
    /\ split_by_preference(GivenAddrs(hc)).fallback # <<>>

\* The destination lacks a scheme, has a scheme that enforce_http does not
\* allow, or lacks a host.
Malformed(c, dst) ==
    \/ dst.scheme = "none"
    \/ c.enforce_http /\ dst.scheme # "http"
    \/ dst.host = ""

\* ----- C11
\* C11: the future connect() returns for a destination without scheme, with a
\* scheme enforce_http does not allow, or without host is in State::Error: its
\* first poll returns an InvalidInput error, and neither the resolver nor
\* connect() is ever called for it.
C11_MalformedRejectedWithoutIo ==
    /\ [](  (hc.state # "None" /\ Malformed(cfg, hc.dst))
            => /\ hc.state = "Error"
               /\ hc.visited = <<"Error">>
               /\ resolves = 0
               /\ dialLog = <<>>
               /\ hc.out.tag = "None" => hc.err.some /\ hc.err.e.kind = "InvalidInput" )
    /\ [][ (hc.state # "None" /\ Malformed(cfg, hc.dst) /\ hc.out.tag = "None" /\ hc' # hc)
           => hc'.out.tag = "Err" /\ hc'.out.err.kind = "InvalidInput" ]_vars

\* https://example.domain under enforce_http: the first poll has returned the
\* InvalidInput error.
C11_Witness ==
    /\ cfg.enforce_http
    /\ hc.dst = Uri("https", "example.domain", 0)
    /\ hc.out.tag = "Err"
    /\ hc.out.err.kind = "InvalidInput"

\* ----- C12
\* C12: whatever enforce_http is, the InvalidInput error of a rejected
\* destination has the variant of its defect: MissingScheme when it has no
\* scheme, NotHttp when its scheme is not http under enforce_http, and
\* MissingAuthority when it has no host.
C12_VariantNamesDefect ==
    (hc.state = "Error" /\ hc.err.some)
    => hc.err.e.what =
          IF hc.dst.scheme = "none" THEN "MissingScheme"
          ELSE IF cfg.enforce_http /\ hc.dst.scheme # "http" THEN "NotHttp"
          ELSE "MissingAuthority"

\* The address lists ConnectingTcp::new makes of the addresses given to the
\* coordinator of h when a timeout is configured.
Families(h) == split_by_preference(GivenAddrs(h))

\* ----- C13
\* C13: with addresses of both families and a timeout, a poll of the coordinator
\* that finds the preferred dial pending and the delay elapsed calls connect()
\* for the first fallback address (if the fallback dialer has not dialed yet)
\* and keeps the preferred dial: after such a poll the first dial of the
\* fallback dialer is to the first fallback address, the preferred dial is
\* still held, and so is the fallback's while the fallback dialer is kept.
C13_FallbackDialedWhenDelayElapsed ==
    ( /\ hc.state = "Connecting"
      /\ cfg.happy_eyeballs_timeout = "Some"
      /\ Families(hc).fallback # <<>>
      /\ hc.late
      /\ hc.tcpRes.tag = "Pending"
      /\ hc.tcp.preferred.id = "P" )
    => /\ Dialed("F") # <<>>
       /\ Dialed("F")[1] = Families(hc).fallback[1]
       /\ InFlight(hc.tcp.preferred.current)
       /\ hc.tcp.fallback.some
             => /\ pollLog = <<"P", "delay", "F">>
                /\ InFlight(hc.tcp.fallback.remote.current)

\* The poll that found the delay elapsed has dialed the first fallback address
\* and both dials are pending.
C13_Witness ==
    /\ hc.state = "Connecting"
    /\ hc.late
    /\ hc.tcpRes.tag = "Pending"
    /\ hc.tcp.fallback.some
    /\ Dialed("F") = <<Families(hc).fallback[1]>>
    /\ hc.tcp.preferred.current.st = "pending"
    /\ hc.tcp.fallback.remote.current.st = "pending"
    /\ pollLog = <<"P", "delay", "F">>

\* ----- C14
\* C14: with a timeout, while the delay has not elapsed connect() is called for
\* a fallback address only once the preferred dialer is exhausted (it has
\* dialed every preferred address); until then a socket the coordinator returns
\* is connected to a preferred address.
C14_FallbackWaitsForDelay ==
    ( /\ hc.state = "Connecting"
      /\ cfg.happy_eyeballs_timeout = "Some"
      /\ ~elapsed
      /\ Dialed("P") # Families(hc).preferred )
    => /\ Dialed("F") = <<>>
       /\ hc.tcpRes.tag = "Ok"
             => \E i \in DOMAIN Families(hc).preferred :
                   hc.tcpRes.addr = Families(hc).preferred[i]

\* ----- C15
\* C15: a poll of the coordinator polls the preferred dialer first, the delay
\* and the fallback dialer only after it; a poll that finds the preferred dial
\* and the fallback dial both connected returns the preferred dialer's socket
\* without polling the fallback dialer, which is dropped with its dial.
C15_PreferredPolledFirst ==
    /\ [](pollLog \in {<<>>, <<"P">>, <<"P", "delay">>, <<"P", "delay", "F">>, <<"P", "F">>})
    /\ [][ ( /\ hc.state = "Connecting"
             /\ hc.tcp.fallback.some
             /\ hc.tcp.preferred.current.st = "ok"
             /\ hc.tcp.fallback.remote.current.st = "ok"
             /\ hc' # hc )
           => /\ hc'.tcpRes = ReadyOk(hc.tcp.preferred.current.addr)
              /\ pollLog' = <<"P">>
              /\ ~hc'.tcp.fallback.some
              /\ hc'.tcp.preferred.id = "P"
              /\ cancelLog' = Append(cancelLog, <<"F", hc.tcp.fallback.remote.current.addr, "ok">>)
       ]_vars

\* The preferred dialer's socket was returned by a poll that dropped the
\* fallback dialer with a dial that had connected.
C15_Witness ==
    /\ hc.tcpRes.tag = "Ok"
    /\ pollLog = <<"P">>
    /\ hc.tcp.preferred.id = "P"
    /\ hc.tcpRes.addr = Dialed("P")[Len(Dialed("P"))]
    /\ cancelLog # <<>>
    /\ cancelLog[Len(cancelLog)][1] = "F"
    /\ cancelLog[Len(cancelLog)][3] = "ok"

\* ----- C16
\* C16: once the delay has elapsed with the preferred dial pending, the
\* coordinator gives up its fallback dialer only when that dialer has dialed
\* every fallback address: a dial to a fallback address that fails with others
\* left makes the dialer dial the next one, and a socket returned by the poll
\* of the fallback dialer is connected to a fallback address.
C16_FallbackAdvancesOnFailure ==
    ( /\ hc.state = "Connecting"
      /\ cfg.happy_eyeballs_timeout = "Some"
      /\ Families(hc).fallback # <<>>
      /\ hc.tcp.preferred.id = "P" )
    => /\ (hc.tcpRes.tag = "Pending" /\ ~hc.tcp.fallback.some)
             => Dialed("F") = Families(hc).fallback
       /\ (hc.tcpRes.tag = "Pending" /\ hc.tcp.fallback.some)
             => \E n \in 0..Len(Families(hc).fallback) :
                   Dialed("F") = SubSeq(Families(hc).fallback, 1, n)

\* The calls of log are made in the order of order, each at most once.
InOrder(log, order) ==
    /\ \A i \in DOMAIN log : IndexOf(order, log[i]) # 0
    /\ \A i, j \in DOMAIN log : i < j => IndexOf(order, log[i]) < IndexOf(order, log[j])

\* The socket calls the configuration asks for, and the two always made.
Configured(c) ==
    {"set_nodelay", "peer_addr"}
    \cup (IF c.sock.keep_alive_timeout = "Some" THEN {"set_keepalive"} ELSE {})
    \cup (IF c.sock.send_buffer_size = "Some" THEN {"set_send_buffer_size"} ELSE {})
    \cup (IF c.sock.recv_buffer_size = "Some" THEN {"set_recv_buffer_size"} ELSE {})

\* ----- C17
\* C17 as stated: the calls made on the socket the coordinator returned are in
\* the order keepalive, no-delay, send buffer size, receive buffer size, and
\* peer_addr last.
C17_OptionsNodelayBeforeBuffers ==
    hc.sockLog # <<>>
    => /\ hc.tcpRes.tag = "Ok"
       /\ InOrder(hc.sockLog, <<"set_keepalive", "set_nodelay", "set_send_buffer_size",
                                "set_recv_buffer_size", "peer_addr">>)

\* C17, amended: the calls made on the socket the coordinator returned are the
\* configured ones, in the order keepalive, send buffer size, receive buffer
\* size, no-delay, and peer_addr last; all of them when the poll returns the
\* socket.
C17_OptionsInCodeOrder ==
    /\ hc.sockLog # <<>>
          => /\ hc.tcpRes.tag = "Ok"
             /\ InOrder(hc.sockLog, <<"set_keepalive", "set_send_buffer_size",
                                      "set_recv_buffer_size", "set_nodelay", "peer_addr">>)
             /\ \A i \in DOMAIN hc.sockLog : hc.sockLog[i] \in Configured(cfg)
    /\ hc.out.tag = "Ok" => {hc.sockLog[i] : i \in DOMAIN hc.sockLog} = Configured(cfg)

\* Keepalive and both buffer sizes configured, and the poll returned the socket
\* after the five calls.
C17_Witness ==
    /\ hc.out.tag = "Ok"
    /\ Len(hc.sockLog) = 5
    /\ hc.sockLog[4] = "set_nodelay"
    /\ hc.sockLog[5] = "peer_addr"

\* The coordinator of hc was built with a fallback dialer, and its last poll
\* returned an error with every address of both lists dialed.
BothExhausted ==
    /\ hc.state = "Connecting"
    /\ cfg.happy_eyeballs_timeout = "Some"
    /\ Families(hc).fallback # <<>>
    /\ hc.tcpRes.tag = "Err"
    /\ Dialed("P") = Families(hc).preferred
    /\ Dialed("F") = Families(hc).fallback

\* The last element of a non-empty sequence.
Last(s) == s[Len(s)]

\* ----- C18
\* C18 as stated: the error the coordinator returns with both lists exhausted
\* is that of the last preferred address, never that of a fallback address.
C18_PreferredErrorSurfaced ==
    BothExhausted => hc.tcpRes.err.addr = Last(Families(hc).preferred)

\* C18, amended: the error the coordinator returns with both lists exhausted is
\* the last error of the dialer it polled last: that of the last fallback
\* address when the preferred dialer failed first and the fallback dialer was
\* promoted, that of the last preferred address when the fallback dialer failed
\* first and was discarded.
C18_LastPolledDialerErrorSurfaced ==
    BothExhausted
    => /\ hc.tcpRes.err.kind \in {"dial", "setup"}
       /\ ~hc.tcp.fallback.some
       /\ hc.tcp.preferred.id = "F"
             => /\ hc.tcpRes.err.addr = Last(Families(hc).fallback)
                /\ pollLog \in {<<"P", "F">>, <<"P">>}
       /\ hc.tcp.preferred.id = "P"
             => /\ hc.tcpRes.err.addr = Last(Families(hc).preferred)
                /\ pollLog = <<"P">>

\* The preferred dialer failed first, the promoted fallback dialer failed
\* later, in a poll of its own, and its error was returned.
C18_Witness ==
    /\ BothExhausted
    /\ hc.tcp.preferred.id = "F"
    /\ pollLog = <<"P">>
    /\ hc.tcpRes.err = DialErr(Last(Families(hc).fallback))

\* ----- C19
\* C19: the poll of a coordinator built from an empty address list (the
\* resolver returned no address) returns an error value at once: the result of
\* the coordinator's poll, and of the future's, is Ready(Err(_)), not Pending
\* and not a panic.
C19_EmptyListIsAnError ==
    (hc.state = "Connecting" /\ GivenAddrs(hc) = <<>> /\ hc.tcpRes.tag # "None")
    => /\ hc.tcpRes.tag = "Err"
       /\ hc.out.tag = "Err"
       /\ dialLog = <<>>

\* ----- C20
\* C20: a dialer returns an error only once its address list is exhausted,
\* whether a dial failed in its ConnectFuture or in connect(): when the poll of
\* the coordinator returns an error, the dialer that returned it has no
\* address left, and without a fallback dialer it has dialed every address
\* given.
C20_DialFailureDoesNotEndDialer ==
    (hc.state = "Connecting" /\ hc.tcpRes.tag = "Err")
    => /\ hc.tcp.preferred.addrs = <<>>
       /\ cfg.happy_eyeballs_timeout = "None" => Dialed("P") = GivenAddrs(hc)

\* The last poll of the future returned the resolver's error or the
\* coordinator's.
FailedInFlight ==
    /\ hc.out.tag = "Err"
    /\ hc.out.err.kind \in {"resolve", "dial", "setup"}

\* ----- C21
\* C21 as stated: a future that has returned the resolver's error or the
\* coordinator's is in State::Error.
C21_ErrorMovesToFailed ==
    FailedInFlight => hc.state = "Error"

\* C21, amended: a future that has returned the resolver's error is still in
\* State::Resolving, one that has returned the coordinator's error is still in
\* State::Connecting: the error is returned from the poll and not stored, and
\* State::Error is the state only of a future built by invalid_url.
C21_ErrorLeavesStateInPlace ==
    /\ FailedInFlight
          => /\ hc.state = IF hc.out.err.kind = "resolve" THEN "Resolving" ELSE "Connecting"
             /\ ~hc.err.some
    /\ hc.state = "Error" => hc.visited = <<"Error">> /\ Malformed(cfg, hc.dst)

\* The resolver failed and the coordinator failed, each in some run.
C21_Witness ==
    /\ FailedInFlight
    /\ hc.out.err.kind = "dial"
    /\ hc.state = "Connecting"
    /\ hc.visited = <<"Lazy", "Resolving", "Connecting">>

\* ----- C22
\* C22: a future in State::Error holds its error until its first poll, which
\* returns it and leaves None; a second poll panics with "polled more than
\* once": it returns no error again, and calls neither the resolver nor
\* connect().
C22_StoredErrorReturnedOnce ==
    /\ [](hc.state = "Error"
          => \/ hc.out.tag = "None" /\ hc.err.some
             \/ hc.out.tag = "Err" /\ ~hc.err.some
             \/ hc.out = Panic("polled more than once") /\ ~hc.err.some)
    /\ [][ (hc.state = "Error" /\ hc' # hc)
           => /\ hc'.state = "Error"
              /\ resolves' = resolves /\ dialLog' = dialLog
              /\ hc.out.tag = "None" => hc'.out = ReadyErr(hc.err.e)
              /\ hc.out.tag = "Err" => hc'.out = Panic("polled more than once")
              /\ hc.out.tag # "Panic" ]_vars

\* The second poll of a future built by invalid_url has panicked.
C22_Witness ==
    /\ hc.state = "Error"
    /\ hc.visited = <<"Error">>
    /\ hc.out = Panic("polled more than once")

\* ----- C23
\* C23: when a call on the connected socket (an option or peer_addr) fails, its
\* error is what the future returns: the failing call is the last one made on
\* the socket, the socket is dropped, connect() has been called for no address
\* after the one the socket is connected to, the coordinator was polled once in
\* that poll, and nothing is dialed afterwards.
C23_SocketCallErrorEndsEstablishment ==
    /\ [](  (hc.out.tag = "Err" /\ hc.out.err.kind = "socket")
            => /\ hc.state = "Connecting"
               /\ hc.tcpRes.tag = "Ok"
               /\ hc.out.err.addr = hc.tcpRes.addr
               /\ hc.sockLog # <<>> /\ Last(hc.sockLog) = hc.out.err.what
               /\ hc.sockDropped
               /\ Last(Dialed(hc.tcp.preferred.id)) = hc.tcpRes.addr
               /\ pollLog \in {<<"P">>, <<"P", "delay", "F">>, <<"P", "F">>} )
    /\ []( hc.sockDropped => hc.out.tag = "Err" /\ hc.out.err.kind = "socket" )
    /\ [][ (hc.out.tag = "Err" /\ hc.out.err.kind = "socket")
           => hc' = hc /\ dialLog' = dialLog /\ pollLog' = pollLog ]_vars

\* set_nodelay failed on the socket of the first address, with another address
\* left to dial.
C23_Witness ==
    /\ hc.out.tag = "Err"
    /\ hc.out.err.kind = "socket"
    /\ hc.out.err.what = "set_nodelay"
    /\ hc.sockDropped
    /\ hc.tcp.preferred.addrs # <<>>

\* The place of a state in the order Lazy, Resolving, Connecting.
StateRank(state) ==
    CASE state = "None" -> 0
      [] state = "Lazy" -> 1
      [] state = "Resolving" -> 2
      [] state = "Connecting" -> 3
      [] OTHER -> 4

\* ----- C24
\* C24: the states a future has been in are Lazy, Resolving, Connecting, or
\* Lazy, Connecting, or a prefix of these, and no poll takes it to an earlier
\* state; a future built for a malformed destination is in State::Error from
\* the start and stays there.
C24_StateMovesForward ==
    /\ [](hc.state # "None"
          => /\ hc.visited \in { <<"Lazy">>, <<"Lazy", "Resolving">>,
                                 <<"Lazy", "Resolving", "Connecting">>,
                                 <<"Lazy", "Connecting">>, <<"Error">> }
             /\ Last(hc.visited) = hc.state
             /\ Malformed(cfg, hc.dst) <=> hc.state = "Error")
    /\ [][ /\ StateRank(hc'.state) >= StateRank(hc.state)
           /\ hc.state = "Error" => hc'.state = "Error"
           /\ (hc.state # "None" /\ hc.state # "Error") => hc'.state # "Error" ]_vars

\* A future that was in Lazy and Resolving is in Connecting and has been
\* polled there more than once.
C24_Witness ==
    /\ hc.visited = <<"Lazy", "Resolving", "Connecting">>
    /\ hc.late
    /\ hc.tcpRes.tag = "Pending"

\* The coordinator as ConnectingTcp::new built it for hc.
Built(h) == ConnectingTcpNew(GivenAddrs(h), h.happy_eyeballs_timeout)

\* The poll of the coordinator has returned Ready (or has panicked).
Terminated == hc.state = "Connecting" /\ hc.tcpRes.tag \notin {"None", "Pending"}

\* ----- C25
\* C25: a coordinator holds at most two dials at once, one per dialer, and a
\* coordinator whose poll has returned Ready has ended in one of three ways:
\* with the socket of the preferred dialer, with the socket of the fallback
\* dialer, or with every address of both lists dialed and no socket (an error,
\* or the panic of a dialer that has no error to return).
C25_TwoDialsThreeOutcomes ==
    hc.state = "Connecting"
    => /\ InFlightCount(hc.tcp) <= 2
       /\ Terminated
             => \/ /\ hc.tcpRes.tag = "Ok"
                   /\ hc.tcp.preferred.id = "P"
                   /\ hc.tcpRes.addr = Last(Dialed("P"))
                \/ /\ hc.tcpRes.tag = "Ok"
                   /\ hc.tcp.preferred.id = "F"
                   /\ hc.tcpRes.addr = Last(Dialed("F"))
                \/ /\ hc.tcpRes.tag \in {"Err", "Panic"}
                   /\ Dialed("P") = Built(hc).preferred.addrs
                   /\ Dialed("F") = Built(hc).fallback.remote.addrs

\* The dialers of the coordinator of hc that are still there.
Dialers ==
    {hc.tcp.preferred} \cup (IF hc.tcp.fallback.some THEN {hc.tcp.fallback.remote} ELSE {})

\* The place in dialLog of the call of connect() for address a by dialer id,
\* and of the drop of the dialer's ConnectFuture for a; 0 when there is none.
StartOf(id, a) == IndexOf(dialLog, <<id, a>>)
DropOf(id, a) == IndexOf(dialLog, <<"drop", id, a>>)

\* The dial a dialer has outstanding is the one to the address it dialed last.
OneDialPerDialer ==
    hc.state = "Connecting"
    => \A r \in Dialers :
          InFlight(r.current)
          => Dialed(r.id) # <<>> /\ r.current.addr = Last(Dialed(r.id))

C27_NoDialLeftAfterSuccess ==
    (hc.state = "Connecting" /\ hc.tcpRes.tag = "Ok")
    => /\ ~hc.tcp.fallback.some
       /\ InFlightCount(hc.tcp) = 0
       /\ hc.tcp.preferred.current = [addr |-> hc.tcpRes.addr, st |-> "taken"]
       /\ hc.tcpRes.addr = Last(Dialed(hc.tcp.preferred.id))
       /\ \A i \in DOMAIN cancelLog :
             /\ cancelLog[i][1] # hc.tcp.preferred.id
             /\ cancelLog[i][2] # hc.tcpRes.addr

\* The preferred dialer connected while the fallback dialer had a dial
\* pending, which was dropped with it.
C27_Witness ==
    /\ hc.state = "Connecting"
    /\ hc.tcpRes.tag = "Ok"
    /\ hc.tcp.preferred.id = "P"
    /\ Len(cancelLog) = 1
    /\ cancelLog[1][1] = "F"
    /\ cancelLog[1][3] = "pending"

\* ----- C28
\* C28: a poll of the coordinator in which the preferred dialer fails while
\* there is a fallback makes the fallback dialer self.preferred, drops the
\* delay with the fallback, polls the promoted dialer and returns what that
\* poll returns, whether or not the delay has elapsed: a pending dial of the
\* promoted dialer, its socket, or its error, not the preferred dialer's error.
C28_FallbackPromotedOnPreferredFailure ==
    /\ [](pollLog = <<"P", "F">>
          => /\ hc.tcp.preferred.id = "F"
             /\ ~hc.tcp.fallback.some
             /\ Dialed("F") # <<>>
             /\ hc.tcpRes.tag \in {"Pending", "Ok", "Err"}
             /\ hc.tcpRes.tag = "Ok" => hc.tcpRes.addr = Last(Dialed("F"))
             /\ hc.tcpRes.tag = "Err" => hc.tcpRes.err.addr = Last(Dialed("F")))
    /\ [][ ( /\ hc.state = "Connecting"
             /\ hc.tcp.fallback.some
             /\ hc.tcp.preferred.current.st = "err"
             /\ hc.tcp.preferred.addrs = <<>>
             /\ hc'.tcp.preferred # hc.tcp.preferred )
           => /\ pollLog' = <<"P", "F">>
              /\ hc'.tcp.preferred.id = "F"
              /\ ~hc'.tcp.fallback.some
              /\ hc'.tcpRes # ReadyErr(DialErr(hc.tcp.preferred.current.addr)) ]_vars

\* The preferred dialer failed before the delay had elapsed, and the poll
\* returned the pending dial of the promoted fallback dialer.
C28_Witness ==
    /\ pollLog = <<"P", "F">>
    /\ ~elapsed
    /\ hc.tcpRes.tag = "Pending"
    /\ hc.tcp.preferred.id = "F"
    /\ hc.tcp.preferred.current.st = "pending"
    /\ Len(Dialed("P")) >= 1

\* The coordinator of hc has given up a fallback dialer that had dialed, and
\* still has its preferred dialer.
FallbackDiscarded ==
    /\ hc.state = "Connecting"
    /\ hc.tcp.preferred.id = "P"
    /\ ~hc.tcp.fallback.some
    /\ Dialed("F") # <<>>

\* ----- C29
\* C29: the poll in which the fallback dialer fails with the preferred dial
\* pending returns Pending and leaves the coordinator without fallback; every
\* later poll polls the preferred dialer only and returns its result: the
\* fallback's error is never returned and no fallback address is dialed again.
C29_FallbackFailureIsDiscarded ==
    /\ [](FallbackDiscarded
          => /\ pollLog \in {<<"P", "delay", "F">>, <<"P">>}
             /\ pollLog = <<"P", "delay", "F">>
                   => hc.tcpRes.tag = "Pending" /\ InFlight(hc.tcp.preferred.current)
             /\ hc.tcpRes.tag = "Ok" => hc.tcpRes.addr = Last(Dialed("P"))
             /\ hc.tcpRes.tag = "Err" => hc.tcpRes.err.addr = Last(Dialed("P"))
             /\ hc.tcpRes.tag # "Panic")
    /\ [][ FallbackDiscarded
           => /\ Dialed("F")' = Dialed("F")
              /\ pollLog' \in {pollLog, <<"P">>}
              /\ hc'.tcp.preferred.id = "P" ]_vars

\* The fallback dialer failed on every fallback address with the preferred
\* dial pending, and a later poll returned the preferred dialer's socket.
C29_Witness ==
    /\ FallbackDiscarded
    /\ Dialed("F") = Families(hc).fallback
    /\ cancelLog = <<>>
    /\ hc.tcpRes.tag = "Ok"
    /\ pollLog = <<"P">>
    /\ \A i \in DOMAIN fate : fate[i] # "setup"

\* s keeps, without repetition, the relative order its elements have in addrs.
KeepsOrder(s, addrs) == s = SelectSeq(addrs, LAMBDA a : \E i \in DOMAIN s : s[i] = a)

\* ----- C30
\* C30: split_by_preference loses and repeats no address: preferred has
\* exactly the addresses of the first address's family, fallback the others,
\* each in the order of the list; fallback is empty exactly when the list is
\* empty or of one family, and then the coordinator is built without fallback.
\* Stated of the addresses given to every coordinator built with a timeout.
C30_SplitIsOrderedPartition ==
    (hc.state = "Connecting" /\ cfg.happy_eyeballs_timeout = "Some")
    => LET addrs == GivenAddrs(hc)
           sp == split_by_preference(addrs)
       IN /\ Len(sp.preferred) + Len(sp.fallback) = Len(addrs)
          /\ KeepsOrder(sp.preferred, addrs)
          /\ KeepsOrder(sp.fallback, addrs)
          /\ \A i \in DOMAIN addrs :
                IF addrs[i].ip.fam = addrs[1].ip.fam
                THEN (\E k \in DOMAIN sp.preferred : sp.preferred[k] = addrs[i])
                     /\ ~(\E k \in DOMAIN sp.fallback : sp.fallback[k] = addrs[i])
                ELSE (\E k \in DOMAIN sp.fallback : sp.fallback[k] = addrs[i])
                     /\ ~(\E k \in DOMAIN sp.preferred : sp.preferred[k] = addrs[i])
          /\ sp.fallback = <<>> <=> \A i \in DOMAIN addrs : addrs[i].ip.fam = addrs[1].ip.fam
          /\ sp.fallback = <<>> => ~hc.tcp.fallback.some /\ pollLog \in {<<>>, <<"P">>}
          /\ \E n \in 0..Len(sp.preferred) : Dialed("P") = SubSeq(sp.preferred, 1, n)
          /\ hc.tcp.fallback.some
                => hc.tcp.fallback.remote.addrs \in
                      {SubSeq(sp.fallback, n, Len(sp.fallback)) : n \in 1..(Len(sp.fallback) + 1)}

\* A coordinator built from an IPv6, an IPv4 and an IPv6 address: two
\* preferred addresses, both dialed, and the IPv4 address as fallback.
C30_Witness ==
    /\ hc.state = "Connecting"
    /\ cfg.happy_eyeballs_timeout = "Some"
    /\ Len(GivenAddrs(hc)) = 3
    /\ [i \in 1..3 |-> GivenAddrs(hc)[i].ip.fam] = <<6, 4, 6>>
    /\ Dialed("P") = <<GivenAddrs(hc)[1], GivenAddrs(hc)[3]>>
    /\ hc.tcp.fallback.some
    /\ hc.tcp.fallback.remote.addrs = <<GivenAddrs(hc)[2]>>


\* Slot s holds a Watching that has not been polled since the Signal went and
\* the step polls it, another Watch clone or Watching having been dropped.
NextPollAfterSignalGone(s) ==
    /\ ws[s].k = "watching"
    /\ ~TxAlive
    /\ ws[s].closedPoll = "none"
    /\ ws'[s].polls = ws[s].polls + 1
    /\ \E t \in Slots \ {s} : ws[t].k = "gone"

\* ----- C31
\* C31: the drop of a Watch clone or of a Watching changes nothing for the
\* others: it leaves every other slot, the Signal and the Draining future as
\* they are; a remaining Watching has on_drain called, once, by its next poll
\* after the Signal is gone; and a poll of Draining with a clone remaining
\* returns Pending.
C31_DropLeavesOthersAlone ==
    [][ /\ \A t \in Slots :
              (Alive(t) /\ ws'[t].k = "gone")
                  => /\ \A s \in Slots \ {t} : ws'[s] = ws[s]
                     /\ sig' = sig
                     /\ drn' = drn
        /\ \A s \in Slots :
              NextPollAfterSignalGone(s) => ws[s].calls = 0 /\ ws'[s].calls = 1
        /\ (drn' # drn /\ \E s \in Slots : Alive(s)) => drn'.last = "pending" ]_vars


\* Slot s holds a Watching whose task has completed: its last poll returned Ready.
TaskDone(s) == ws[s].k = "watching" /\ ws[s].out = "ready"

\* ----- C32
\* C32 as stated: a Watching releases its Watch clone when its task completes
\* or when it is dropped: a poll of Draining that finds only Watchings whose
\* task has completed, the other clones being dropped, returns Ready.
C32_CompletedWatchingReleases ==
    [][(drn' # drn /\ \A s \in Slots : Alive(s) => TaskDone(s)) => drn'.last = "ready"]_vars

\* C32, amended: a Watching releases its Watch clone when it is dropped, before
\* or after its task completes, and not by the poll that completes the task:
\* that poll leaves the Watching with its clone, a poll of Draining that finds a
\* Watching, completed or not, returns Pending, and one that finds every clone
\* dropped, completed Watchings among them, returns Ready.
C32_DroppedWatchingReleases ==
    [][ /\ \A s \in Slots : (ws[s].out # "ready" /\ ws'[s].out = "ready") => TaskDone(s)'
        /\ (drn' # drn /\ \E s \in Slots : ws[s].k = "watching") => drn'.last = "pending"
        /\ (drn' # drn /\ (\A s \in Slots : ~Alive(s))
                       /\ \E s \in Slots : ws[s].k = "gone" /\ ws[s].polls > 0)
              => drn'.last = "ready" ]_vars

\* Draining has resolved, every clone being dropped, among them a Watching
\* dropped after its task had completed and on_drain had been called.
C32_Witness ==
    /\ drn.last = "ready"
    /\ \A s \in Slots : ~Alive(s)
    /\ \E s \in Slots : ws[s].k = "gone" /\ ws[s].out = "ready" /\ ws[s].calls = 1


\* The calls of connect() of either dialer, in order: <<dialer, address>>.
Connects == SelectSeq(dialLog, LAMBDA d : Len(d) = 2)

\* ----- C33
\* C33: in the life of a coordinator connect() is called at most once for an
\* address, whichever dialer calls it and whether before or after the
\* promotion of the fallback dialer, and when the coordinator returns an error
\* connect() has been called for every address it was built from and none of
\* these dials has succeeded.
C33_EachAddressOnceAllBeforeFailure ==
    hc.state = "Connecting"
    => /\ \A i, j \in DOMAIN Connects : Connects[i][2] = Connects[j][2] => i = j
       /\ hc.tcpRes.tag = "Err"
             => \A k \in DOMAIN GivenAddrs(hc) :
                   /\ \E i \in DOMAIN Connects : Connects[i][2] = GivenAddrs(hc)[k]
                   /\ FateOf(GivenAddrs(hc)[k]) # "ok"


\* ----- C34
\* C34: when every dial in flight completes, the timeout passes and the future
\* is polled again after each of these, a coordinator built from a non-empty
\* list of addresses comes to return a socket or an error, and so does one
\* that has discarded its failed fallback dialer.
C34_CoordinatorTerminates ==
    (hc.state = "Connecting" /\ GivenAddrs(hc) # <<>>) ~> hc.tcpRes.tag \in {"Ok", "Err"}

\* A coordinator that had discarded its failed fallback dialer, with the
\* preferred dial pending, has returned the error of its last preferred
\* address, two addresses of the three being preferred.
C34_Witness ==
    /\ FallbackDiscarded
    /\ Len(GivenAddrs(hc)) = 3
    /\ Dialed("P") = Families(hc).preferred
    /\ Len(Dialed("P")) = 2
    /\ Dialed("F") = Families(hc).fallback
    /\ cancelLog = <<>>
    /\ hc.tcpRes.tag = "Err"
    /\ hc.tcpRes.err.addr = Last(Dialed("P"))
    /\ pollLog = <<"P">>


\* ----- C35
\* C35: the drop of the Signal without drain() is to the watchers what a drain
\* is: the next poll of each Watching after it calls on_drain, once, before it
\* polls the task, which finds its draining flag set; and there is no Draining
\* future: none is ever polled.
C35_DroppedSignalNotifies ==
    /\ [](sig = "dropped" => drn = NotDraining)
    /\ [][\A s \in Slots :
            ( /\ sig = "dropped"
              /\ ws[s].k = "watching"
              /\ ws[s].closedPoll = "none"
              /\ ws'[s].polls = ws[s].polls + 1 )
            => /\ ws[s].calls = 0
               /\ ws'[s].calls = 1
               /\ ws'[s].state = "Draining"
               /\ ws'[s].fut.saw]_vars

=============================================================================
